---------------------------- MODULE Spec2Model ----------------------------
(***************************************************************************)
(* The useTourGuide hook (src/unnamed/part_001) as a state machine.       *)
(*                                                                         *)
(* The hook keeps five React state cells (isLoading, error,                *)
(* currentLocation, currentTour, currentStopIndex).  startTour is an async *)
(* function: every `await` is a suspension point, and the code between two *)
(* suspension points runs as one step.  React 18 (Next.js app router,      *)
(* 'use client') batches the state writes of one such step into one        *)
(* commit, so each action below is one continuation together with all the  *)
(* setState calls it makes.                                                *)
(*                                                                         *)
(* Each call slot c is one invocation of startTour; several slots may be   *)
(* in flight at once because the hook does not guard against re-entry.     *)
(*                                                                         *)
(* The TourGuide component (src/frontend/src/components/TourGuide.tsx) is  *)
(* the hook's caller: its buttons, its two effects on the current stop and *)
(* the two services they call are the last part of the module.             *)
(***************************************************************************)
EXTENDS Integers, Sequences, FiniteSets, TLC

VARIABLES
    isLoading,          \* useState(false)
    error,              \* useState<string | null>(null)
    currentLocation,    \* useState<GeoPoint | null>(null)
    currentTour,        \* useState<Tour | null>(null)
    currentStopIndex,   \* useState(0)
    pc,                 \* pc[c]: the await at which invocation c is suspended
    attractions,        \* attractions[c]: the list `await response.json()` gave
    task,               \* task[c][i]: where the async callback of stop i stands
    results,            \* results[c][i]: the value Promise.all holds for stop i
    raw,                \* raw[c][i]: the `content` the narrative body of stop i held
    starts,             \* number of startTour invocations so far
    snapLoc,            \* snapLoc[c]: currentLocation when invocation c began
    issued,             \* issued[c]: the requests invocation c has made (history)
    revOrder,           \* revOrder[c]: the stops so far completed last-to-first
    last,               \* the step taken last (history)
    description,        \* TourGuide: useState<string>("")
    isLoadingDescription, \* TourGuide: useState(false)
    descPending,        \* stops whose generateDescription request is in flight
    saves,              \* the saveJourneyMemory calls made so far, in order
    seen                \* the dependencies the component's effects last ran with

vars == <<isLoading, error, currentLocation, currentTour, currentStopIndex,
          pc, attractions, task, results, raw, starts, snapLoc, issued,
          revOrder, last, description, isLoadingDescription, descPending,
          saves, seen>>

hookState == <<isLoading, error, currentLocation, currentTour, currentStopIndex>>

\* what the TourGuide component adds to the hook
uiState == <<description, isLoadingDescription, descPending, saves, seen>>

---------------------------------------------------------------------------
(* Bounds of the model *)

MaxLongLen == 6      \* longest discovery result (SpecFanOut)
MaxAdvances == 8     \* longest run of goToNextStop calls that is counted

(* Program constants *)

MaxStops == 5              \* attractions.slice(0, 5)
DwellMinutes == 20         \* stops.length * 20
WalkMetersPerHour == 5000  \* totalDistance / 5000
MinutesPerHour == 60       \* ... * 60
MetersPerDegree == 111195  \* R * PI/180 with R = 6371000, to the metre

\* invocation c is the c-th call of startTour in a behaviour
Calls == {1, 2}

---------------------------------------------------------------------------
(* Values *)

NULL == "null"                     \* JS null in a string-typed state cell
Undefined == "undefined"           \* a property the JSON object does not have
NoTour == [none |-> TRUE]          \* currentTour === null
NoStop == [none |-> TRUE]          \* a Promise.all slot not yet fulfilled

Positions == {"p1", "p2"}          \* what the position provider may report

Fallback == "No description available."
MsgDiscovery == "Failed to fetch nearby attractions"
MsgNoGeolocation == "Geolocation is not supported by your browser"
MsgUnknown == "An error occurred"
\* messages of errors thrown by the runtime, abstracted to their kind
MsgNetwork == "TypeError: Failed to fetch"
MsgSyntax == "SyntaxError: invalid JSON"
MsgType == "TypeError: not a function / property of null"

\* values of the component's description cell: the initial "", the text the
\* description service wrote for an attraction, or the message of an error
EmptyText == [text |-> "", of |-> 0]
TextOf(a) == [text |-> "generated", of |-> a]
MsgDescribe == [text |-> "Failed to generate description", of |-> 0]
MsgNoDescription == [text |-> "No description received from server", of |-> 0]

\* texts the narrative service may put in `content`
Contents == {Undefined, "", "text"}

Min(a, b) == IF a < b THEN a ELSE b
Abs(x) == IF x < 0 THEN -x ELSE x

\* What the point-of-interest service may answer: attraction ids 1..n, the
\* nearest first, which the catalogue numbers from the far end.
Descending(n) == [i \in 1..n |-> n + 1 - i]
ShortLists == {<<>>, <<1>>, <<2, 1>>}
LongLists == {Descending(k) : k \in 0..MaxLongLen}

\* The archive's answer for an attraction: a fixed catalogue in which the
\* odd-numbered attractions have one photo and the others none.
PhotosOf(a) == IF a % 2 = 1 THEN <<[url |-> a, title |-> a]>> ELSE <<>>

\* attraction.coordinates: the catalogue puts attraction a on the equator
\* at a degrees of longitude.
Latitude(a) == 0
Longitude(a) == a

---------------------------------------------------------------------------
(* Pure functions of the source *)

\* Array.prototype.slice(from, to) on a 1-based sequence
SliceAll(s, from, to) == SubSeq(s, from + 1, Len(s))
Slice(s, from, to) == SubSeq(s, from + 1, Min(to, Len(s)))

\* aiData.content || 'No description available.'
NarrativeNoFallback(content) == content
Narrative(content) ==
    IF content = Undefined \/ content = "" THEN Fallback ELSE content

\* photos.map((p: any) => p.url)
Urls(photos) == [k \in 1..Len(photos) |-> photos[k].url]

\* the object the async callback returns for one attraction
MakeStop(a, content) ==
    [poi |-> [id |-> a,
              location |-> [latitude |-> Latitude(a), longitude |-> Longitude(a)],
              photos |-> Urls(PhotosOf(a))],
     historicalPhotos |-> PhotosOf(a),
     description |-> Narrative(content)]

\* haversine, on the catalogue's equatorial points, in whole metres
calculateDistance(lat1, lon1, lat2, lon2) == MetersPerDegree * Abs(lon2 - lon1)

RECURSIVE SumDistance(_, _)
SumDistanceFromFirst(stops, k) ==
    IF k <= 1 THEN 0
    ELSE SumDistance(stops, k - 1)
         + calculateDistance(stops[1].poi.location.latitude,
                             stops[1].poi.location.longitude,
                             stops[k].poi.location.latitude,
                             stops[k].poi.location.longitude)
SumDistance(stops, k) ==
    IF k <= 1 THEN 0
    ELSE SumDistance(stops, k - 1)
         + calculateDistance(stops[k-1].poi.location.latitude,
                             stops[k-1].poi.location.longitude,
                             stops[k].poi.location.latitude,
                             stops[k].poi.location.longitude)

\* stops.reduce(...): the callback returns 0 at index 0 and acc + distance after
totalDistanceOf(stops) == SumDistance(stops, Len(stops))

\* (totalDistance / 5000) * 60 + stops.length * 20, in thousandths of a minute
estimatedDurationBetweenStops(stops) ==
    totalDistanceOf(stops) * ((MinutesPerHour * 1000) \div WalkMetersPerHour)
    + (Len(stops) - 1) * DwellMinutes * 1000
estimatedDurationOf(stops) ==
    totalDistanceOf(stops) * ((MinutesPerHour * 1000) \div WalkMetersPerHour)
    + Len(stops) * DwellMinutes * 1000

\* the object handed to setCurrentTour
MakeTour(stops) ==
    [stops |-> stops,
     totalDistance |-> totalDistanceOf(stops),
     estimatedDuration |-> estimatedDurationOf(stops)]

\* Promise.all keeps each fulfilled value at the index of its promise
CollectInCompletionOrder(res, i, stop) ==
    LET k == CHOOSE j \in 1..Len(res) :
                 res[j] = NoStop /\ \A m \in 1..(j-1) : res[m] # NoStop
    IN  [res EXCEPT ![k] = stop]
Collect(res, i, stop) == [res EXCEPT ![i] = stop]

\* prev => Math.min(prev + 1, currentTour.stops.length - 1)
NextIndexUnclamped(prev, tour) == prev + 1
NextIndex(prev, tour) == Min(prev + 1, Len(tour.stops) - 1)

\* getCurrentStop: null without a tour, else currentTour.stops[currentStopIndex]
\* (an index outside the array reads as undefined)
getCurrentStop ==
    IF currentTour = NoTour THEN NoStop
    ELSE IF currentStopIndex \in 0 .. (Len(currentTour.stops) - 1)
         THEN currentTour.stops[currentStopIndex + 1]
         ELSE [undefined |-> TRUE]

---------------------------------------------------------------------------
(* History record of the last step: the operation, its invocation, the   *)
(* stop it worked on and, for "stored", the narrative texts read; the      *)
(* requests the invocation made up to its end; for "failed" the            *)
(* source that failed, whether every other stop had already returned and  *)
(* whether the stop's photo list had arrived; for "next", in i, how many  *)
(* goToNextStop calls in a row followed the storing of the Tour (0 once   *)
(* another step came between or the run outgrew MaxAdvances); for        *)
(* "position" the position the provider reported.                        *)

\* issued[c] before invocation c begins: how often it called
\* getCurrentPosition and the discovery endpoint, the attractions it asked
\* photos and a narrative for, and whether it began while an error was shown
NoRequests ==
    [position |-> 0, discovery |-> 0, photos |-> {}, ai |-> {}, retry |-> FALSE]

Last(op, c) ==
    [op |-> op, call |-> c, i |-> 0, raw |-> <<>>, attractions |-> <<>>,
     reverse |-> FALSE, prevIndex |-> 0, locBefore |-> NULL,
     cause |-> NULL, othersDone |-> FALSE, photosOk |-> FALSE,
     issued |-> NoRequests, position |-> NULL]

Init ==
    /\ isLoading = FALSE
    /\ error = NULL
    /\ currentLocation = NULL
    /\ currentTour = NoTour
    /\ currentStopIndex = 0
    /\ pc = [c \in Calls |-> "idle"]
    /\ attractions = [c \in Calls |-> <<>>]
    /\ task = [c \in Calls |-> <<>>]
    /\ results = [c \in Calls |-> <<>>]
    /\ raw = [c \in Calls |-> <<>>]
    /\ starts = 0
    /\ snapLoc = [c \in Calls |-> NULL]
    /\ issued = [c \in Calls |-> NoRequests]
    /\ revOrder = [c \in Calls |-> TRUE]
    /\ last = Last("init", 0)
    /\ description = EmptyText
    /\ isLoadingDescription = FALSE
    /\ descPending = {}
    /\ saves = <<>>
    /\ seen = [stop |-> NoStop, description |-> EmptyText]

\* the invocation is over: its locals are gone
Return(c) ==
    /\ pc' = [pc EXCEPT ![c] = "idle"]
    /\ attractions' = [attractions EXCEPT ![c] = <<>>]
    /\ task' = [task EXCEPT ![c] = <<>>]
    /\ results' = [results EXCEPT ![c] = <<>>]
    /\ raw' = [raw EXCEPT ![c] = <<>>]
    /\ snapLoc' = [snapLoc EXCEPT ![c] = NULL]
    /\ issued' = [issued EXCEPT ![c] = NoRequests]
    /\ revOrder' = [revOrder EXCEPT ![c] = TRUE]

Failed(c, cause, i) ==
    [Last("failed", c) EXCEPT
        !.i = i, !.cause = cause,
        !.attractions = attractions[c],
        !.locBefore = snapLoc[c],
        !.issued = issued[c],
        !.othersDone = (i > 0 /\ \A j \in 1..Len(task[c]) :
                                    j # i => task[c][j].st = "done"),
        !.photosOk = (i > 0 /\ task[c][i].st \in {"ai", "aiJson"}
                            /\ task[c][i].photosIsList)]

\* lines 145-150: catch (err) { setError(...) } finally { setIsLoading(false) }
\* `cause` and `i` say which request of which stop threw.
CatchClearingTour(c, msg, cause, i) ==
    /\ error' = msg
    /\ isLoading' = FALSE
    /\ currentTour' = NoTour
    /\ currentStopIndex' = 0
    /\ UNCHANGED <<currentLocation, starts, uiState>>
    /\ last' = Failed(c, cause, i)
    /\ Return(c)
CatchRestoringLocation(c, msg, cause, i) ==
    /\ error' = msg
    /\ isLoading' = FALSE
    /\ currentLocation' = snapLoc[c]
    /\ UNCHANGED <<currentTour, currentStopIndex, starts, uiState>>
    /\ last' = Failed(c, cause, i)
    /\ Return(c)
Catch(c, msg, cause, i) ==
    /\ error' = msg
    /\ isLoading' = FALSE
    /\ UNCHANGED <<currentLocation, currentTour, currentStopIndex, starts,
                   uiState>>
    /\ last' = Failed(c, cause, i)
    /\ Return(c)

\* lines 122-143 and the finally block: the tour is built from the stops
\* Promise.all resolved with, stored, and the index reset.  `info` is the
\* history of the step that fulfilled Promise.all.
StoreIfLatest(c, stops, info) ==
    /\ IF c = starts
       THEN currentTour' = MakeTour(stops) /\ currentStopIndex' = 0
       ELSE UNCHANGED <<currentTour, currentStopIndex>>
    /\ isLoading' = FALSE
    /\ UNCHANGED <<error, currentLocation, starts, uiState>>
    /\ last' = [info EXCEPT !.op = "stored", !.call = c,
                    !.attractions = attractions[c],
                    !.prevIndex = currentStopIndex,
                    !.locBefore = snapLoc[c],
                    !.issued = issued[c]]
    /\ Return(c)
StoreKeepingIndex(c, stops, info) ==
    /\ currentTour' = MakeTour(stops)
    /\ isLoading' = FALSE
    /\ UNCHANGED <<error, currentLocation, starts, currentStopIndex, uiState>>
    /\ last' = [info EXCEPT !.op = "stored", !.call = c,
                    !.attractions = attractions[c],
                    !.prevIndex = currentStopIndex,
                    !.locBefore = snapLoc[c],
                    !.issued = issued[c]]
    /\ Return(c)
Store(c, stops, info) ==
    /\ currentTour' = MakeTour(stops)
    /\ currentStopIndex' = 0
    /\ isLoading' = FALSE
    /\ UNCHANGED <<error, currentLocation, starts, uiState>>
    /\ last' = [info EXCEPT !.op = "stored", !.call = c,
                    !.attractions = attractions[c],
                    !.prevIndex = currentStopIndex,
                    !.locBefore = snapLoc[c],
                    !.issued = issued[c]]
    /\ Return(c)

---------------------------------------------------------------------------
(* startTour, one action per continuation *)

\* lines 53-59: setIsLoading(true); setError(null); getCurrentPosition()
StartTourUnlessError(c) ==
    /\ pc[c] = "idle"
    /\ starts = c - 1
    /\ error = NULL
    /\ isLoading' = TRUE
    /\ error' = NULL
    /\ pc' = [pc EXCEPT ![c] = "position"]
    /\ starts' = starts + 1
    /\ snapLoc' = [snapLoc EXCEPT ![c] = currentLocation]
    /\ issued' = [issued EXCEPT ![c] =
                    [NoRequests EXCEPT !.position = 1, !.retry = (error # NULL)]]
    /\ last' = Last("start", c)
    /\ UNCHANGED <<currentLocation, currentTour, currentStopIndex, attractions,
                   task, results, raw, revOrder, uiState>>
StartTour(c) ==
    /\ pc[c] = "idle"
    /\ starts = c - 1
    /\ isLoading' = TRUE
    /\ error' = NULL
    /\ pc' = [pc EXCEPT ![c] = "position"]
    /\ starts' = starts + 1
    /\ snapLoc' = [snapLoc EXCEPT ![c] = currentLocation]
    /\ issued' = [issued EXCEPT ![c] =
                    [NoRequests EXCEPT !.position = 1, !.retry = (error # NULL)]]
    /\ last' = Last("start", c)
    /\ UNCHANGED <<currentLocation, currentTour, currentStopIndex, attractions,
                   task, results, raw, revOrder, uiState>>

\* lines 59-68: the position arrives; setCurrentLocation; fetch(nearby)
PositionResolve(c, p) ==
    /\ pc[c] = "position"
    /\ currentLocation' = p
    /\ pc' = [pc EXCEPT ![c] = "discovery"]
    /\ issued' = [issued EXCEPT ![c].discovery = 1]
    /\ last' = [Last("position", c) EXCEPT !.position = p]
    /\ UNCHANGED <<isLoading, error, currentTour, currentStopIndex, attractions,
                   task, results, raw, starts, snapLoc, revOrder,
                   uiState>>

\* lines 40-42: no navigator.geolocation: reject(new Error(...))
PositionUnsupported(c) ==
    /\ pc[c] = "position"
    /\ Catch(c, MsgNoGeolocation, "position", 0)

\* lines 45-49: denied or timed out: the browser rejects with a
\* GeolocationPositionError, which is not an instance of Error
PositionRejectRetry(c) ==
    /\ pc[c] = "position"
    /\ IF issued[c].position < 2
       THEN /\ issued' = [issued EXCEPT ![c].position = 2]
            /\ last' = Last("start", c)
            /\ UNCHANGED <<hookState, pc, attractions, task, results, raw,
                           starts, snapLoc, revOrder, uiState>>
       ELSE Catch(c, MsgUnknown, "position", 0)
PositionReject(c) ==
    /\ pc[c] = "position"
    /\ Catch(c, MsgUnknown, "position", 0)

\* line 68: fetch rejects (the service is unreachable)
DiscoveryFetchReject(c) ==
    /\ pc[c] = "discovery"
    /\ Catch(c, MsgNetwork, "discovery", 0)

\* line 69: if (!response.ok) throw new Error(...)
DiscoveryNotOkStoresEmpty(c) ==
    /\ pc[c] = "discovery"
    /\ Store(c, <<>>, Last("stored", c))
DiscoveryNotOk(c) ==
    /\ pc[c] = "discovery"
    /\ Catch(c, MsgDiscovery, "discovery", 0)

\* lines 68-70: response.ok: await response.json()
DiscoveryFetchResolve(c) ==
    /\ pc[c] = "discovery"
    /\ pc' = [pc EXCEPT ![c] = "discoveryJson"]
    /\ last' = Last("discovery", c)
    /\ UNCHANGED <<hookState, attractions, task, results, raw, starts,
                   snapLoc, issued, revOrder, uiState>>

\* line 70: the body is not JSON
DiscoveryJsonReject(c) ==
    /\ pc[c] = "discoveryJson"
    /\ Catch(c, MsgSyntax, "discovery", 0)

\* line 74: the body is JSON but no array: attractions.slice is not a function
DiscoveryJsonNotList(c) ==
    /\ pc[c] = "discoveryJson"
    /\ Catch(c, MsgType, "discovery", 0)

\* lines 70-84: the list arrives; slice(0, 5).map(async ...) runs every
\* callback up to its first await, so all photo requests are issued here.
\* With no attraction Promise.all([]) resolves to [] and lines 122-143 run.
DiscoveryJsonResolve(c, list) ==
    /\ pc[c] = "discoveryJson"
    /\ LET selected == Slice(list, 0, MaxStops) IN
       IF selected = <<>>
       THEN Store(c, <<>>, Last("stored", c))
       ELSE /\ pc' = [pc EXCEPT ![c] = "enrich"]
            /\ attractions' = [attractions EXCEPT ![c] = list]
            /\ task' = [task EXCEPT ![c] =
                         [i \in 1..Len(selected) |->
                            [st |-> "photos", photosIsList |-> TRUE]]]
            /\ results' = [results EXCEPT ![c] =
                            [i \in 1..Len(selected) |-> NoStop]]
            /\ raw' = [raw EXCEPT ![c] = [i \in 1..Len(selected) |-> NULL]]
            /\ last' = Last("discoveryJson", c)
            /\ issued' = [issued EXCEPT ![c].photos =
                           {selected[i] : i \in 1..Len(selected)}]
            /\ UNCHANGED <<hookState, starts, snapLoc, revOrder, uiState>>

---------------------------------------------------------------------------
(* The async callback of stop i (lines 74-119).  Its four awaits follow one *)
(* another: the narrative request is issued only after the photo body has  *)
(* been read.  A rejection of any callback rejects Promise.all at once and  *)
(* control passes to the catch block; what the other callbacks of that     *)
(* invocation still do is discarded, so their tasks are dropped.           *)

EnrichingInTurn(c, i, st) ==
    /\ pc[c] = "enrich"
    /\ i \in 1..Len(task[c])
    /\ task[c][i].st = st
    /\ \A j \in 1..(i - 1) : task[c][j].st = "done"
Enriching(c, i, st) ==
    /\ pc[c] = "enrich"
    /\ i \in 1..Len(task[c])
    /\ task[c][i].st = st

Advance(c, i, st) ==
    /\ task' = [task EXCEPT ![c][i].st = st]
    /\ last' = Last("enrich", c)
    /\ UNCHANGED <<hookState, pc, attractions, results, raw, starts,
                   snapLoc, issued, revOrder, uiState>>

\* line 76: the photo request rejects
PhotosFetchReject(c, i) ==
    /\ Enriching(c, i, "photos")
    /\ Catch(c, MsgNetwork, "archive", i)

\* lines 76-86: the photo response arrives (its status is not looked at)
PhotosFetchResolve(c, i) ==
    /\ Enriching(c, i, "photos")
    /\ Advance(c, i, "photosJson")

\* line 86: the photo body is not JSON
PhotosJsonReject(c, i) ==
    /\ Enriching(c, i, "photosJson")
    /\ Catch(c, MsgSyntax, "archive", i)

\* lines 86-99: the photo body is read (a list, or an error object that is
\* no list) and the narrative request is issued
PhotosJsonResolve(c, i, isList) ==
    /\ Enriching(c, i, "photosJson")
    /\ task' = [task EXCEPT ![c][i] = [st |-> "ai", photosIsList |-> isList]]
    /\ issued' = [issued EXCEPT ![c].ai =
                    @ \cup {Slice(attractions[c], 0, MaxStops)[i]}]
    /\ last' = Last("enrich", c)
    /\ UNCHANGED <<hookState, pc, attractions, results, raw, starts,
                   snapLoc, revOrder, uiState>>

\* line 89: the narrative request rejects
AiFetchReject(c, i) ==
    /\ Enriching(c, i, "ai")
    /\ Catch(c, MsgNetwork, "narrative", i)

\* lines 89-101: the narrative response arrives
AiFetchResolve(c, i) ==
    /\ Enriching(c, i, "ai")
    /\ Advance(c, i, "aiJson")

\* line 101: the narrative body is not JSON
AiJsonReject(c, i) ==
    /\ Enriching(c, i, "aiJson")
    /\ Catch(c, MsgSyntax, "narrative", i)

\* line 117: the narrative body is the JSON value null: aiData.content throws
AiJsonNull(c, i) ==
    /\ Enriching(c, i, "aiJson")
    /\ Catch(c, MsgType, "narrative", i)

\* line 114: photos is no list: photos.map is not a function
PhotosNotList(c, i) ==
    /\ Enriching(c, i, "aiJson")
    /\ ~task[c][i].photosIsList
    /\ Catch(c, MsgType, "archive", i)

\* lines 101-143: the narrative body is read and the callback returns its
\* stop.  When it is the last callback to return, Promise.all resolves and
\* the rest of startTour runs in the same turn.
AiJsonResolve(c, i, content) ==
    /\ Enriching(c, i, "aiJson")
    /\ task[c][i].photosIsList
    /\ LET stop == MakeStop(Slice(attractions[c], 0, MaxStops)[i], content)
           res == Collect(results[c], i, stop)
           others == {j \in 1..Len(task[c]) : j # i}
           rev == /\ revOrder[c]
                  /\ \A j \in others : (j < i) = (task[c][j].st # "done")
           contents == [raw[c] EXCEPT ![i] = content]
       IN  IF \A j \in others : task[c][j].st = "done"
           THEN Store(c, res, [Last("stored", c) EXCEPT !.i = i,
                                  !.raw = contents, !.reverse = rev])
           ELSE /\ results' = [results EXCEPT ![c] = res]
                /\ raw' = [raw EXCEPT ![c] = contents]
                /\ task' = [task EXCEPT ![c][i].st = "done"]
                /\ revOrder' = [revOrder EXCEPT ![c] = rev]
                /\ last' = Last("enrich", c)
                /\ UNCHANGED <<hookState, pc, attractions, starts,
                               snapLoc, issued, uiState>>

---------------------------------------------------------------------------
(* The cursor *)

\* lines 153-156
\* (a call without a tour returns at once and is no step at all)
goToNextStop ==
    /\ IF currentTour = NoTour
       THEN UNCHANGED <<currentStopIndex, last, uiState>>
       ELSE /\ currentStopIndex' = NextIndex(currentStopIndex, currentTour)
            /\ last' = [Last("next", 0) EXCEPT
                    !.prevIndex = currentStopIndex,
                    !.i = IF last.op = "stored" THEN 1
                          ELSE IF last.op = "next" /\ last.i \in 1..(MaxAdvances - 1)
                               THEN last.i + 1
                               ELSE 0]
    /\ UNCHANGED <<isLoading, error, currentLocation, currentTour, pc,
                   attractions, task, results, raw, starts, snapLoc, issued,
                   revOrder, uiState>>

---------------------------------------------------------------------------
(* Specifications *)

\* what startTour does when one of its awaits settles
startTourResumes(c, lists, positions) ==
    \/ \E p \in positions : PositionResolve(c, p)
    \/ PositionUnsupported(c)
    \/ PositionReject(c)
    \/ DiscoveryFetchReject(c)
    \/ DiscoveryNotOk(c)
    \/ DiscoveryFetchResolve(c)
    \/ DiscoveryJsonReject(c)
    \/ DiscoveryJsonNotList(c)
    \/ \E list \in lists : DiscoveryJsonResolve(c, list)
    \/ \E i \in 1..MaxStops :
          \/ PhotosFetchReject(c, i)
          \/ PhotosFetchResolve(c, i)
          \/ PhotosJsonReject(c, i)
          \/ \E isList \in BOOLEAN : PhotosJsonResolve(c, i, isList)
          \/ AiFetchReject(c, i)
          \/ AiFetchResolve(c, i)
          \/ AiJsonReject(c, i)
          \/ AiJsonNull(c, i)
          \/ PhotosNotList(c, i)
          \/ \E content \in Contents : AiJsonResolve(c, i, content)

startTour(c, lists, positions) ==
    \/ StartTour(c)
    \/ startTourResumes(c, lists, positions)

\* The hook driven directly, without the component: any number of
\* overlapping invocations, short discovery results
Next ==
    \/ \E c \in Calls : startTour(c, ShortLists, Positions)
    \/ goToNextStop

Spec == Init /\ [][Next]_vars

\* one invocation at a time, discovery results up to and beyond the cap
NextFanOut ==
    \/ startTour(1, LongLists, {"p1"})
    \/ goToNextStop

SpecFanOut == Init /\ [][NextFanOut]_vars

---------------------------------------------------------------------------
(* Requests that are never answered.  None of the three fetch calls of     *)
(* startTour is given an AbortSignal or raced against a timer (only the    *)
(* position read has `timeout: 5000`), so a request the server never       *)
(* answers leaves its await suspended for good.                            *)

\* line 68: the discovery request is never answered
DiscoveryHang(c) ==
    /\ pc[c] = "discovery"
    /\ pc' = [pc EXCEPT ![c] = "unanswered"]
    /\ last' = Last("unanswered", c)
    /\ UNCHANGED <<hookState, attractions, task, results, raw, starts,
                   snapLoc, issued, revOrder, uiState>>

\* line 76: the archive request of stop i is never answered
PhotosHang(c, i) ==
    /\ Enriching(c, i, "photos")
    /\ task' = [task EXCEPT ![c][i].st = "unanswered"]
    /\ last' = Last("unanswered", c)
    /\ UNCHANGED <<hookState, pc, attractions, results, raw, starts,
                   snapLoc, issued, revOrder, uiState>>

\* line 89: the narrative request of stop i is never answered
AiHang(c, i) ==
    /\ Enriching(c, i, "ai")
    /\ task' = [task EXCEPT ![c][i].st = "unanswered"]
    /\ last' = Last("unanswered", c)
    /\ UNCHANGED <<hookState, pc, attractions, results, raw, starts,
                   snapLoc, issued, revOrder, uiState>>

\* one invocation whose requests may stay unanswered
NextLive ==
    \/ startTour(1, ShortLists, Positions)
    \/ DiscoveryHang(1)
    \/ \E i \in 1..MaxStops : PhotosHang(1, i)
    \/ \E i \in 1..MaxStops : AiHang(1, i)
    \/ goToNextStop

\* Every continuation whose promise has settled runs, and every request
\* that is answered at all is answered in the end.
SpecLive ==
    /\ Init
    /\ [][NextLive]_vars
    /\ WF_vars(startTourResumes(1, ShortLists, Positions))

---------------------------------------------------------------------------
(* The TourGuide component.  It reads the hook's state on every render,   *)
(* offers Start Tour and Next Stop, and has two effects that depend on    *)
(* the current stop: one asks the description service for a text, the     *)
(* other saves a journey memory.  React runs the effects of a commit      *)
(* before it handles the next event, so nothing but RunEffects happens     *)
(* while dependencies differ from the ones the effects last ran with.      *)

user == TRUE                       \* useAuth(): a user signed in throughout

\* `if (currentStop)`: neither null nor undefined
Truthy(stop) == stop # NoStop /\ stop # [undefined |-> TRUE]

\* which of the four returns of lines 114-221 renders
View ==
    IF error # NULL THEN "error"
    ELSE IF isLoading THEN "loading"
    ELSE IF currentTour = NoTour THEN "start"
    ELSE "tour"

\* a dependency of an effect changed in the last commit
EffectsDue ==
    \/ getCurrentStop # seen.stop
    \/ description # seen.description

hookLocals == <<pc, attractions, task, results, raw, starts, snapLoc, issued,
                revOrder>>

\* lines 91-93 and 138-140: the Start Tour button
handleStartTour ==
    /\ View = "start"
    /\ ~EffectsDue
    /\ StartTour(1)

\* line 212: the Next Stop button, rendered inside {currentStop && ...}
NextStopClick ==
    /\ View = "tour"
    /\ Truthy(getCurrentStop)
    /\ ~EffectsDue
    /\ goToNextStop

\* the object handed to saveJourneyMemory, and whether the call has settled
Memory(stop, text) ==
    [stop |-> stop.poi.id, description |-> text, st |-> "pending"]

\* lines 66-70: useEffect(..., [currentStop, generateDescription]) calls
\* generateDescription, which sets isLoadingDescription and sends its request;
\* lines 95-112: useEffect(..., [currentStop, user, description]) calls
\* saveJourneyMemory
RunEffects ==
    /\ EffectsDue
    /\ LET stop == getCurrentStop IN
       /\ IF stop # seen.stop /\ Truthy(stop)
          THEN /\ isLoadingDescription' = TRUE
               /\ descPending' = descPending \cup {stop.poi.id}
          ELSE UNCHANGED <<isLoadingDescription, descPending>>
       /\ IF user /\ Truthy(stop)
          THEN saves' = Append(saves, Memory(stop, description))
          ELSE UNCHANGED saves
       /\ seen' = [stop |-> stop, description |-> description]
    /\ last' = Last("effects", 0)
    /\ UNCHANGED <<hookState, hookLocals, description>>

\* lines 52-63: generateDescription's request for attraction a settles and
\* the text, or the message of the error, is written to `description`
DescribeSettle(a, text) ==
    /\ ~EffectsDue
    /\ a \in descPending
    /\ description' = text
    /\ isLoadingDescription' = FALSE
    /\ descPending' = descPending \ {a}
    /\ last' = Last("describe", 0)
    /\ UNCHANGED <<hookState, hookLocals, saves, seen>>

\* saveJourneyMemory's promise is fulfilled
SaveResolve(k) ==
    /\ ~EffectsDue
    /\ k \in 1..Len(saves)
    /\ saves[k].st = "pending"
    /\ saves' = [saves EXCEPT ![k].st = "saved"]
    /\ last' = Last("save", 0)
    /\ UNCHANGED <<hookState, hookLocals, description, isLoadingDescription,
                   descPending, seen>>

\* lines 109-111: it is rejected; .catch logs the error to the console
SaveRejectResetsCursor(k) ==
    /\ ~EffectsDue
    /\ k \in 1..Len(saves)
    /\ saves[k].st = "pending"
    /\ saves' = [saves EXCEPT ![k].st = "failed"]
    /\ currentStopIndex' = 0
    /\ last' = Last("save", 0)
    /\ UNCHANGED <<isLoading, error, currentLocation, currentTour, hookLocals,
                   description, isLoadingDescription, descPending, seen>>
SaveReject(k) ==
    /\ ~EffectsDue
    /\ k \in 1..Len(saves)
    /\ saves[k].st = "pending"
    /\ saves' = [saves EXCEPT ![k].st = "failed"]
    /\ last' = Last("save", 0)
    /\ UNCHANGED <<hookState, hookLocals, description, isLoadingDescription,
                   descPending, seen>>

\* the hook as the component drives it
NextUI ==
    \/ handleStartTour
    \/ startTourResumes(1, ShortLists, Positions)
    \/ NextStopClick
    \/ RunEffects
    \/ \E a \in descPending :
          \E text \in {TextOf(a), MsgDescribe, MsgNoDescription} :
             DescribeSettle(a, text)
    \/ \E k \in 1..Len(saves) : SaveResolve(k)
    \/ \E k \in 1..Len(saves) : SaveReject(k)

SpecUI == Init /\ [][NextUI]_vars

---------------------------------------------------------------------------
(* Properties *)

Stored == last.op = "stored"
Failure == last.op = "failed"
StopCount == Len(currentTour.stops)
Candidates == last.attractions

\* C1: order preservation.  For every discovery result of length n with
\* 0 < n <= 5 and every order in which the per-stop callbacks return, the
\* Tour a successful startTour stores has n stops and its i-th stop is the
\* i-th candidate.
C1_OrderPreserved ==
    (Stored /\ Len(Candidates) \in 1..MaxStops) =>
        /\ StopCount = Len(Candidates)
        /\ \A i \in 1..Len(Candidates) :
              /\ currentTour.stops[i].poi.id = Candidates[i]
              /\ currentTour.stops[i].poi.location =
                     [latitude |-> Latitude(Candidates[i]),
                      longitude |-> Longitude(Candidates[i])]

\* a Tour of five stops whose callbacks returned last stop first
C1_Witness == Stored /\ Len(Candidates) = MaxStops /\ last.reverse

\* C2: when discovery returns no candidate, startTour fails and no Tour
\* with zero stops is ever stored in the session state.
C2_NoEmptyTour ==
    /\ currentTour # NoTour => StopCount > 0
    /\ (Stored /\ Candidates = <<>>) => FALSE

\* C3: once discovery has succeeded with at least one candidate, startTour
\* never ends in the error state, whatever archive and narrative calls fail.
C3_NoFailureAfterDiscovery == ~(Failure /\ Len(Candidates) >= 1)

\* C4: if the archive request fails for stop k (it rejects, or its body is
\* an error or no list) and every other stop succeeds, a Tour with all n
\* stops is stored in which stop k has no photos and the others keep theirs.
C4_ArchiveFailureTolerated ==
    (last.cause = "archive" /\ last.othersDone) =>
        /\ Stored
        /\ StopCount = Len(Candidates)
        /\ currentTour.stops[last.i].historicalPhotos = <<>>
        /\ \A j \in 1..StopCount :
              j # last.i => currentTour.stops[j].historicalPhotos
                               = PhotosOf(Candidates[j])

\* C5: if the narrative request of a stop fails (the call rejects or its
\* body cannot be read), that stop's narrative is the fallback string and
\* startTour still stores the Tour with all n stops.
C5_NarrativeFailureTolerated ==
    (last.cause = "narrative" /\ last.photosOk) =>
        /\ Stored
        /\ StopCount = Len(Candidates)
        /\ currentTour.stops[last.i].description = Fallback

\* C6: a narrative body whose text is empty or missing gives the stop the
\* fallback string exactly; a non-empty text is stored unchanged.
C6_NarrativeFallback ==
    /\ Stored =>
          \A i \in 1..StopCount :
             currentTour.stops[i].description =
                 IF last.raw[i] = "" \/ last.raw[i] = Undefined
                 THEN "No description available."
                 ELSE last.raw[i]
    /\ \A c \in Calls : \A i \in 1..Len(results[c]) :
          results[c][i] # NoStop =>
             results[c][i].description =
                 IF raw[c][i] = "" \/ raw[c][i] = Undefined
                 THEN "No description available."
                 ELSE raw[c][i]

\* a stored Tour in which one text was empty, one missing and one present
C6_Witness ==
    /\ Stored
    /\ \E i, j, k \in 1..StopCount :
          /\ last.raw[i] = "" /\ last.raw[j] = Undefined /\ last.raw[k] = "text"
          /\ currentTour.stops[i].description = Fallback
          /\ currentTour.stops[k].description = "text"

\* a step of invocation c other than the one that stores its Tour
CallStep(c) ==
    /\ last'.call = c
    /\ last'.op \in {"start", "position", "discovery", "discoveryJson",
                     "enrich", "failed"}
    /\ last' # last \/ pc' # pc \/ task' # task
\* the step in which invocation c ends in the catch block
FailingStep(c) == pc[c] # "idle" /\ pc'[c] = "idle" /\ last'.op = "failed"
                  /\ last'.call = c

\* C7 as stated: a failing startTour leaves the Tour and the index as they
\* were before the call, and only the error message changes (so
\* currentLocation is what it was when the call began).
C7_OnlyErrorChanges ==
    [][\A c \in Calls : FailingStep(c) =>
          /\ UNCHANGED <<currentTour, currentStopIndex>>
          /\ currentLocation' = snapLoc[c]]_vars

\* C7 as amended: no step of a startTour call other than its final store
\* writes the Tour or the index, and the step that ends a failing call sets
\* the error message and isLoading and nothing else; currentLocation keeps
\* the position the call acquired.
C7_FailureKeepsTour ==
    [][\A c \in Calls :
          /\ CallStep(c) => UNCHANGED <<currentTour, currentStopIndex>>
          /\ FailingStep(c) => /\ error' # NULL
                               /\ isLoading' = FALSE
                               /\ UNCHANGED currentLocation]_vars

\* a call failed in a narrative request while a Tour with an advanced cursor
\* was stored, after it had changed currentLocation
C7_Witness ==
    /\ Failure /\ last.cause = "narrative"
    /\ currentTour # NoTour /\ currentStopIndex > 0
    /\ currentLocation # last.locBefore

\* C8: whenever a Tour exists, 0 <= index < len(stops).
C8_CursorInRange ==
    currentTour # NoTour =>
        0 <= currentStopIndex /\ currentStopIndex < StopCount

\* C9: goToNextStop sets the index to min(index + 1, len(stops) - 1) and
\* changes nothing else; at the last stop it changes nothing; after
\* len(stops) + 3 calls in a row on a fresh Tour the index is len(stops) - 1.
C9_Advance ==
    /\ [][last'.op = "next" =>
             /\ currentTour # NoTour
             /\ currentStopIndex' =
                    IF currentStopIndex + 1 < StopCount - 1
                    THEN currentStopIndex + 1 ELSE StopCount - 1
             /\ currentStopIndex = StopCount - 1 =>
                    currentStopIndex' = currentStopIndex
             /\ UNCHANGED <<isLoading, error, currentLocation, currentTour,
                            pc, attractions, task, results, starts>>]_vars
    /\ [](last.op = "next" /\ last.i >= 1 =>
             /\ last.i >= StopCount + 3 => currentStopIndex = StopCount - 1
             /\ last.i < StopCount => currentStopIndex = last.i)

\* len(stops) + 3 calls in a row on a fresh Tour of five stops
C9_Witness ==
    /\ last.op = "next"
    /\ currentTour # NoTour /\ StopCount = MaxStops
    /\ last.i = StopCount + 3
    /\ currentStopIndex = StopCount - 1

\* C10: every successful startTour replaces the session's Tour by the one
\* it built and resets the index to 0, whatever the index was.
C10_StoreResets ==
    Stored =>
        /\ currentStopIndex = 0
        /\ currentTour # NoTour
        /\ StopCount = Len(Slice(Candidates, 0, MaxStops))
        /\ \A i \in 1..StopCount :
              /\ currentTour.stops[i].poi.id = Candidates[i]
              /\ currentTour.stops[i].description = Narrative(last.raw[i])

\* a one-stop Tour replaced a Tour whose cursor stood on its second stop
C10_Witness == Stored /\ last.prevIndex = 1 /\ StopCount = 1

\* C11: getCurrentStop returns none exactly when no Tour exists; whenever a
\* Tour exists it returns stops[index], which is one of that Tour's stops.
C11_CurrentStop ==
    /\ (getCurrentStop \in {NoStop, [undefined |-> TRUE]})
           <=> (currentTour = NoTour)
    /\ currentTour # NoTour =>
          \E i \in 1..StopCount :
             i = currentStopIndex + 1 /\ getCurrentStop = currentTour.stops[i]

\* the candidates startTour may turn into stops: the first min(n, 5)
FirstFive(list) == {list[i] : i \in 1..Min(Len(list), MaxStops)}

\* C12: when discovery returns n candidates, the Tour's stops are the first
\* min(n, 5) candidates in source order, and no archive or narrative request
\* is issued for a candidate beyond the fifth, neither while the call runs
\* nor by the time it ends.
C12_Truncation ==
    /\ Stored =>
          /\ StopCount = Min(Len(Candidates), MaxStops)
          /\ \A i \in 1..StopCount :
                currentTour.stops[i].poi.id = Candidates[i]
    /\ (Stored \/ Failure) =>
          last.issued.photos \cup last.issued.ai \subseteq FirstFive(Candidates)
    /\ \A c \in Calls :
          issued[c].photos \cup issued[c].ai \subseteq FirstFive(attractions[c])

\* more than five candidates, five stops, five archive and narrative requests
C12_Witness ==
    /\ Stored
    /\ Len(Candidates) > MaxStops
    /\ StopCount = MaxStops
    /\ Cardinality(last.issued.photos) = MaxStops
    /\ Cardinality(last.issued.ai) = MaxStops

\* C13: if position acquisition times out or is denied, startTour fails:
\* an error is reported, the position was requested exactly once (no silent
\* retry) and no discovery or enrichment request is issued for that call.
C13_PositionFailure ==
    /\ (Failure /\ last.cause = "position") =>
          /\ error \in {MsgUnknown, MsgNoGeolocation}
          /\ last.issued.position = 1
          /\ last.issued.discovery = 0
          /\ last.issued.photos = {} /\ last.issued.ai = {}
    /\ \A c \in Calls :
          pc[c] = "position" =>
             /\ issued[c].position = 1
             /\ issued[c].discovery = 0
             /\ issued[c].photos = {} /\ issued[c].ai = {}

\* the provider denied or timed out the one request of the call
C13_Witness ==
    /\ Failure /\ last.cause = "position"
    /\ error = MsgUnknown
    /\ last.issued.position = 1

\* C14: if the point-of-interest source errors or is unreachable, startTour
\* fails: an error is reported, no archive or narrative request is issued,
\* and the call stores no Tour.
C14_DiscoveryFailure ==
    /\ [](Failure /\ last.cause = "discovery" =>
             /\ error \in {MsgNetwork, MsgDiscovery, MsgSyntax, MsgType}
             /\ last.issued.discovery = 1
             /\ last.issued.photos = {} /\ last.issued.ai = {})
    /\ [][\A c \in Calls :
             (pc[c] = "discovery" /\ pc'[c] = "idle") =>
                /\ last'.op = "failed" /\ last'.cause = "discovery"
                /\ error' \in {MsgNetwork, MsgDiscovery}
                /\ UNCHANGED <<currentTour, currentStopIndex>>]_vars

\* the source answered with an error status while a Tour was already stored
C14_Witness ==
    /\ Failure /\ last.cause = "discovery"
    /\ error = MsgDiscovery
    /\ currentTour # NoTour /\ StopCount > 0

\* C15: after a startTour call has failed, startTour can be invoked again on
\* the same session; the new call begins by clearing the error, and when its
\* sources succeed it stores a Tour and the error stays cleared.
C15_Retry ==
    /\ []((Failure /\ starts + 1 \in Calls) => ENABLED StartTour(starts + 1))
    /\ [][starts' = starts + 1 => error' = NULL /\ isLoading' = TRUE]_vars
    /\ []((Stored /\ last.issued.retry) =>
             /\ error = NULL
             /\ currentTour # NoTour
             /\ currentStopIndex = 0)

\* a call begun while the error of a failed call was shown stored its Tour
C15_Witness ==
    /\ Stored /\ last.issued.retry
    /\ last.call = 2
    /\ error = NULL
    /\ currentTour # NoTour /\ StopCount > 0

\* C16: for every Tour built, estimatedDuration (minutes) equals
\* (totalDistance / 5000) * 60 + 20 * stopCount; a Tour of one stop and
\* distance 0 lasts exactly 20 minutes.  Durations are in thousandths of a
\* minute: a metre at 5 km/h takes 12 of them, a stop 20000.
C16_Duration ==
    currentTour # NoTour =>
        /\ currentTour.estimatedDuration =
               12 * currentTour.totalDistance + 20000 * StopCount
        /\ (StopCount = 1 /\ currentTour.totalDistance = 0) =>
               currentTour.estimatedDuration = 20000

\* a Tour of five stops with walking between them
C16_Witness ==
    /\ Stored
    /\ StopCount = MaxStops
    /\ currentTour.totalDistance > 0
    /\ currentTour.estimatedDuration > 20000 * MaxStops

\* distance(stops[i], stops[i+1]) summed over i = from .. N-1
RECURSIVE LegsFrom(_, _)
LegsFrom(stops, from) ==
    IF from >= Len(stops) THEN 0
    ELSE calculateDistance(stops[from].poi.location.latitude,
                           stops[from].poi.location.longitude,
                           stops[from + 1].poi.location.latitude,
                           stops[from + 1].poi.location.longitude)
         + LegsFrom(stops, from + 1)

\* C17: totalDistance of a Tour is the sum of the distances between
\* consecutive stops, taken in stop order; it is never negative and it is 0
\* for a Tour of a single stop.
C17_TotalDistance ==
    currentTour # NoTour =>
        /\ currentTour.totalDistance = LegsFrom(currentTour.stops, 1)
        /\ currentTour.totalDistance >= 0
        /\ StopCount = 1 => currentTour.totalDistance = 0

\* five stops a degree of longitude apart: four legs
C17_Witness ==
    /\ Stored
    /\ StopCount = MaxStops
    /\ currentTour.totalDistance = (MaxStops - 1) * MetersPerDegree

\* the calls of saveJourneyMemory made for attraction a
SavesOf(a) == {k \in 1..Len(saves) : saves[k].stop = a}

\* C19: the memory-logging collaborator receives a save exactly once per
\* stop visited: once the effects of arriving on a stop have run,
\* saveJourneyMemory has been called once for that stop, and it is not
\* called again while the cursor stays on it.
C19_SaveOncePerStop ==
    /\ \A k \in 1..Len(saves) : Cardinality(SavesOf(saves[k].stop)) = 1
    /\ (Truthy(getCurrentStop) /\ ~EffectsDue) =>
          Cardinality(SavesOf(getCurrentStop.poi.id)) = 1

\* C20: a rejected saveJourneyMemory leaves the Tour, the cursor index and
\* the error (indeed all of the hook's state) unchanged, and every
\* goToNextStop after a failed save moves the index to
\* min(index + 1, len(stops) - 1) and changes nothing else of the hook.
C20_SaveFailureHarmless ==
    /\ [][(\E k \in 1..Len(saves) :
              saves[k].st = "pending" /\ saves'[k].st = "failed")
           => UNCHANGED <<hookState, hookLocals>>]_vars
    /\ [][((\E k \in 1..Len(saves) : saves[k].st = "failed")
            /\ last'.op = "next")
           => /\ currentStopIndex' =
                    Min(currentStopIndex + 1, Len(currentTour.stops) - 1)
              /\ UNCHANGED <<isLoading, error, currentLocation, currentTour,
                             hookLocals>>]_vars
    /\ [](\A k \in 1..Len(saves) : saves[k].st = "failed" =>
             /\ error = NULL
             /\ currentTour # NoTour
             /\ currentStopIndex \in 0..(StopCount - 1))

\* the save of the first stop failed and Next Stop then moved to the second
C20_Witness ==
    /\ last.op = "next"
    /\ currentStopIndex = 1
    /\ \E k \in 1..Len(saves) : saves[k].st = "failed" /\ saves[k].stop =
                                    currentTour.stops[1].poi.id

\* the attraction the callback of stop i of invocation c works on
Selected(c, i) == Slice(attractions[c], 0, MaxStops)[i]

\* C21: within the enrichment of one stop the archive request and the
\* narrative request run concurrently: the narrative request is issued
\* without waiting for the archive request, so while a stop's archive
\* request is in flight its narrative request is already issued too.
C21_SubCallsConcurrent ==
    \A c \in Calls : \A i \in 1..Len(task[c]) :
       (pc[c] = "enrich" /\ task[c][i].st = "photos") =>
           Selected(c, i) \in issued[c].ai

\* C22: enrichments of different stops are isolated.  The archive request
\* of every selected stop is issued when the enrichment begins, and
\* whatever the other stops' requests are doing (also never answering),
\* each stop's own next step can be taken: its pending request can be
\* answered and its narrative request is issued once its archive body was
\* read.
C22_StopsIsolated ==
    \A c \in Calls :
       pc[c] = "enrich" =>
          /\ issued[c].photos = {Selected(c, i) : i \in 1..Len(task[c])}
          /\ \A i \in 1..Len(task[c]) :
                /\ task[c][i].st = "photos" =>
                      ENABLED PhotosFetchResolve(c, i)
                /\ task[c][i].st = "photosJson" =>
                      ENABLED PhotosJsonResolve(c, i, TRUE)
                /\ task[c][i].st = "ai" =>
                      /\ Selected(c, i) \in issued[c].ai
                      /\ ENABLED AiFetchResolve(c, i)
                /\ (task[c][i].st = "aiJson" /\ task[c][i].photosIsList) =>
                      ENABLED AiJsonResolve(c, i, "text")

\* the archive request of the first of five stops has not been answered
\* and the other four stops have completed
C22_Witness ==
    /\ pc[1] = "enrich"
    /\ Len(task[1]) = MaxStops
    /\ task[1][1].st = "photos"
    /\ \A i \in 2..MaxStops : task[1][i].st = "done"

\* C23: discovery and enrichment calls each carry a timeout, so every
\* startTour call eventually finishes, with a Tour or an error and with
\* isLoading back to false, even when a discovery, archive or narrative
\* request is never answered.
C23_CallFinishes ==
    (pc[1] # "idle") ~> (pc[1] = "idle" /\ isLoading = FALSE)

\* the invocations of startTour that have begun and not yet finished
InFlight == {c \in Calls : pc[c] # "idle"}

\* C24: at most one assembly is in flight per session: a startTour invoked
\* while an earlier one is outstanding is rejected or cancels the earlier
\* one, so two assemblies are never outstanding together.
C24_SingleAssembly == Cardinality(InFlight) <= 1

\* C25: traversal is forward-only: between two successful startTour
\* completions no step, whether goToNextStop or any step of a startTour
\* call that fails, makes the cursor index smaller.
C25_ForwardOnly ==
    [][last'.op # "stored" => currentStopIndex' >= currentStopIndex]_vars

\* C26: isLoading tracks the assembly: it is true in every state in which
\* some startTour call has started and not yet finished, and false whenever
\* none is in flight, also when calls overlap.
C26_LoadingTracksCalls == isLoading <=> (InFlight # {})

\* C27: the error state agrees with the latest outcome: when no startTour
\* is in flight and the startTour that completed most recently succeeded
\* (here: it has just stored its Tour), error is null, for every
\* interleaving of overlapping calls.
C27_ErrorAgreesWithOutcome == (InFlight = {} /\ Stored) => error = NULL

\* the step in which invocation c ends by storing its Tour
StoringStep(c) == pc[c] # "idle" /\ pc'[c] = "idle" /\ last'.op = "stored"
                  /\ last'.call = c

\* C28: when startTour calls overlap, every successful completion
\* overwrites the stored Tour with the Tour of the completing call and
\* resets the index to 0, so the session holds the Tour of the call that
\* completed last, whether or not it started last, and advances made on an
\* earlier result are discarded.
C28_LastCompletionWins ==
    [][\A c \in Calls :
          StoringStep(c) =>
             /\ currentTour' # NoTour
             /\ currentStopIndex' = 0
             /\ Len(currentTour'.stops) = Min(Len(attractions[c]), MaxStops)
             /\ \A i \in 1..Len(currentTour'.stops) :
                   currentTour'.stops[i].poi.id = attractions[c][i]]_vars

\* the call started first completed last: its one-stop Tour replaced the
\* two-stop Tour of the call started second, on which the cursor had advanced
C28_Witness ==
    /\ Stored /\ last.call = 1
    /\ starts = 2 /\ InFlight = {}
    /\ last.prevIndex = 1
    /\ StopCount = 1 /\ currentStopIndex = 0

\* C29: replacing the Tour and resetting the index to 0 take effect as one
\* step: every step that changes the stored Tour leaves the index at 0, so
\* what getCurrentStop reads after it is the first stop of the new Tour and
\* never a stop picked with the index of the previous Tour.
C29_ReplaceAndResetAtomic ==
    /\ [][currentTour' # currentTour => currentStopIndex' = 0]_vars
    /\ []((Stored /\ StopCount > 0) => getCurrentStop = currentTour.stops[1])

\* a Tour of two stops replaced a Tour whose cursor stood on its second stop
C29_Witness ==
    /\ Stored
    /\ last.prevIndex = 1
    /\ StopCount = 2
    /\ getCurrentStop = currentTour.stops[1]

\* the step in which invocation c receives its position
AcquiringStep(c) == pc[c] = "position" /\ pc'[c] = "discovery"

\* C30: currentLocation is set to the newly acquired position as soon as
\* position acquisition succeeds; no later step of the call, in particular
\* not the one in which discovery or enrichment fails, changes it; and a
\* call whose position acquisition fails does not change it at all.
C30_LocationKept ==
    /\ [][\A c \in Calls :
             /\ AcquiringStep(c) =>
                   /\ last'.position \in Positions
                   /\ currentLocation' = last'.position
             /\ (CallStep(c) /\ ~AcquiringStep(c)) => UNCHANGED currentLocation
             /\ FailingStep(c) => UNCHANGED currentLocation]_vars
    /\ []((Failure /\ last.cause \in {"discovery", "archive", "narrative"})
             => currentLocation \in Positions)

\* discovery failed after the call had replaced the position of an earlier call
C30_Witness ==
    /\ Failure /\ last.cause = "discovery"
    /\ last.locBefore \in Positions
    /\ currentLocation \in Positions
    /\ currentLocation # last.locBefore

=============================================================================
